---- MODULE Spec2Model ----
(***************************************************************************)
(* ft-geo-viewer: the shared floating origin (OriginManager), the          *)
(* coordinate normalizer of FieldTwinLoader, the origin heuristics of      *)
(* GLTFLoader.loadInternal and GeoJSONLoader.processRing, and one          *)
(* FieldTwinLoader.parse run with its asynchronous terrain and asset tasks.*)
(*                                                                         *)
(* Lengths are integers in thousandths of a coordinate unit (1.0 = 1000),  *)
(* so that 0.005, 0.01 and 0.1 are exact.  Arithmetic is exact.            *)
(***************************************************************************)
EXTENDS Integers, Sequences, FiniteSets, TLC

VARIABLES
    origin,      \* OriginManager.origin: NoOrigin (null) or a vector
    firstArg,    \* history: value of the argument of the first setOrigin call, at that call
    writer,      \* history: the component whose call made the origin non-null
    writes,      \* history: number of steps that changed the stored origin
    last,        \* history: the last origin-related call, its input and its result
    memo,        \* history: per input, the first result returned with an origin set
    pc,          \* position of FieldTwinLoader.parse
    payloadOK,   \* the payload handed to parse is a readable record
    hasProgress, \* an onProgress callback was supplied
    nSync,       \* shapes, wells and connections consumed so far
    frames,      \* history: the origins subtracted for the entities placed in the scene
    layers,      \* the terrain-layer tasks, in payload order
    assetCount,  \* number of entries of payload.stagedAssets
    assets,      \* the staged-asset tasks, in payload order
    cache,       \* GLTFLoader.cache: url -> state of the cached promise
    completed,   \* completedTasks
    reports,     \* history: the percent values passed to onProgress, in order
    origin0,     \* history: the origin when the layer tasks were dispatched
    scene,       \* which groups were added to the returned group
    cause,       \* history: why parse rejected
    calls,       \* the load calls suspended at the await of GLTFLoader.load
    objects,     \* the Object3D heap: transform and material reference of each model
    materials,   \* the Material heap: the wireframe flag of each material
    canon,       \* url -> the object the cached promise resolved with (0: none)
    resolved,    \* history: url -> the transform loadInternal resolved with
    instances,   \* the load calls that returned or rejected, in order
    buffer,      \* the ArrayBuffer handed to the terrain decoder
    mesh         \* what the terrain decoder made of it

ovars == <<origin, firstArg, writer, writes, last, memo>>
pvars == <<pc, payloadOK, hasProgress, nSync, frames, layers, assetCount, assets,
           cache, completed, reports, origin0, scene, cause>>
lvars == <<calls, objects, materials, canon, resolved, instances>>
xvars == <<buffer, mesh>>
vars == <<ovars, pvars, lvars, xvars>>

----------------------------------------------------------------------------
(* Vectors (THREE.Vector3 values) *)

Vec(a, b, c) == [x |-> a, y |-> b, z |-> c]
Zero == Vec(0, 0, 0)
VSub(a, b) == Vec(a.x - b.x, a.y - b.y, a.z - b.z)
Abs(n) == IF n < 0 THEN -n ELSE n

NoOrigin == [null |-> TRUE]
NoHint == [nohint |-> TRUE]

(* Program constants, in thousandths unless said otherwise *)
zBias == 100                 \* 0.1
OriginGuard == 1000          \* 1
ringBias == 100              \* 0.1
LocalityThreshold == 1000    \* 1000 whole units

----------------------------------------------------------------------------
(* A heap of Vector3 objects.  mem[r] is the value of the object with       *)
(* reference r; org is the reference held by OriginManager.origin (0 for   *)
(* null); arg is the history of the first setOrigin argument.              *)

Heap(o, a) ==
    IF o = NoOrigin THEN [mem |-> <<>>, org |-> 0, arg |-> a]
    ELSE [mem |-> <<o>>, org |-> 1, arg |-> a]
OriginOf(h) == IF h.org = 0 THEN NoOrigin ELSE h.mem[h.org]
New(h, v) == [h EXCEPT !.mem = Append(@, v)]
Top(h) == Len(h.mem)
clone(h, r) == New(h, h.mem[r])
sub(h, a, b) == [h EXCEPT !.mem[a] = VSub(@, h.mem[b])]
copy(h, a, b) == [h EXCEPT !.mem[a] = h.mem[b]]
Logged(h, p) == IF h.arg = NoOrigin THEN [h EXCEPT !.arg = h.mem[p]] ELSE h

hasOrigin(h) == h.org # 0

\* a setOrigin that keeps the caller's vector instead of a copy of it
setOriginAlias(h, p) ==
    IF h.org = 0 THEN [Logged(h, p) EXCEPT !.org = p] ELSE Logged(h, p)

setOrigin(h, p) ==
    IF h.org = 0
    THEN LET h2 == clone(Logged(h, p), p) IN [h2 EXCEPT !.org = Top(h2)]
    ELSE Logged(h, p)

\* [h |-> heap, r |-> reference returned]
getOrigin(h) ==
    IF h.org # 0 THEN [h |-> h, r |-> h.org]
    ELSE LET h2 == New(h, Zero) IN [h |-> h2, r |-> Top(h2)]

----------------------------------------------------------------------------
(* FieldTwinLoader.normalizeCoordinate *)

Remap(x, y, z) == Vec(x, z + zBias, -y)
Guard(x, y) == Abs(x) > OriginGuard /\ Abs(y) > OriginGuard

\* the guard written with >= instead of >
normalizeCoordinateGE(h, x, y, z) ==
    LET h1 == New(h, Remap(x, y, z))
        raw == Top(h1)
        h2 == IF ~hasOrigin(h1) /\ Abs(x) >= OriginGuard /\ Abs(y) >= OriginGuard
              THEN setOrigin(h1, raw) ELSE h1
        g == getOrigin(h2)
        h3 == clone(g.h, raw)
    IN [h |-> sub(h3, Top(h3), g.r), r |-> Top(h3)]

\* the north axis not negated
normalizeCoordinateNoFlip(h, x, y, z) ==
    LET h1 == New(h, Vec(x, z + zBias, y))
        raw == Top(h1)
        h2 == IF ~hasOrigin(h1) /\ Guard(x, y) THEN setOrigin(h1, raw) ELSE h1
        g == getOrigin(h2)
        h3 == clone(g.h, raw)
    IN [h |-> sub(h3, Top(h3), g.r), r |-> Top(h3)]

\* [h |-> heap after the call, r |-> reference of the returned vector]
normalizeCoordinate(h, x, y, z) ==
    LET h1 == New(h, Remap(x, y, z))
        raw == Top(h1)
        h2 == IF ~hasOrigin(h1) /\ Guard(x, y) THEN setOrigin(h1, raw) ELSE h1
        g == getOrigin(h2)
        h3 == clone(g.h, raw)
    IN [h |-> sub(h3, Top(h3), g.r), r |-> Top(h3)]

----------------------------------------------------------------------------
(* GeoJSONLoader.processRing: ring is a sequence of points [x, y, z] with   *)
(* z = 0 when the point has no third component.  vs is the vertices array. *)

RECURSIVE processRingSwapped(_, _, _)
\* the re-centring subtraction applied to the origin instead of the vertex
processRingSwapped(h, ring, vs) ==
    IF ring = <<>> THEN [h |-> h, vs |-> vs]
    ELSE LET p == Head(ring)
             h1 == New(h, Vec(p.x, p.z + ringBias, -p.y))
             vec == Top(h1)
             h2 == IF ~hasOrigin(h1) THEN setOrigin(h1, vec) ELSE h1
             g == getOrigin(h2)
             h3 == sub(g.h, g.r, vec)
         IN processRingSwapped(h3, Tail(ring), Append(vs, h3.mem[vec]))

RECURSIVE processRing(_, _, _)
processRing(h, ring, vs) ==
    IF ring = <<>> THEN [h |-> h, vs |-> vs]
    ELSE LET p == Head(ring)
             h1 == New(h, Vec(p.x, p.z + ringBias, -p.y))
             vec == Top(h1)
             h2 == IF ~hasOrigin(h1) THEN setOrigin(h1, vec) ELSE h1
             g == getOrigin(h2)
             h3 == sub(g.h, vec, g.r)
         IN processRing(h3, Tail(ring), Append(vs, h3.mem[vec]))

----------------------------------------------------------------------------
(* GLTFLoader.loadInternal, the callback run when the model has loaded.     *)
(* hint is userData.center (NoHint when absent), bbox the bounding-box     *)
(* centre; both in thousandths, whole units in the model.                  *)

Units(n) == n \div 1000

\* the threshold test written with >= instead of >
FarAwayGE(v) ==
    Units(v.x) * Units(v.x) + Units(v.y) * Units(v.y) + Units(v.z) * Units(v.z)
        >= LocalityThreshold * LocalityThreshold

FarAway(v) ==
    Units(v.x) * Units(v.x) + Units(v.y) * Units(v.y) + Units(v.z) * Units(v.z)
        > LocalityThreshold * LocalityThreshold

\* [h |-> heap, r |-> reference of model.position]
loadInternal(h, hint, bbox) ==
    LET h0 == New(h, Zero)
        position == Top(h0)
    IN IF hint # NoHint
       THEN LET h1 == New(h0, Vec(hint.x, hint.z, -hint.y))
                centerVec == Top(h1)
                h2 == IF ~hasOrigin(h1) /\ FarAway(h1.mem[centerVec])
                      THEN setOrigin(h1, centerVec) ELSE h1
            IN IF hasOrigin(h2)
               THEN LET g == getOrigin(copy(h2, position, centerVec))
                    IN [h |-> sub(g.h, position, g.r), r |-> position]
               ELSE [h |-> copy(h2, position, centerVec), r |-> position]
       ELSE LET h1 == New(h0, bbox)
                center == Top(h1)
                h2 == IF ~hasOrigin(h1) /\ FarAway(h1.mem[center])
                      THEN setOrigin(h1, center) ELSE h1
            IN IF hasOrigin(h2) /\ FarAway(h2.mem[center])
               THEN LET g == getOrigin(h2)
                    IN [h |-> sub(g.h, position, g.r), r |-> position]
               ELSE [h |-> h2, r |-> position]

----------------------------------------------------------------------------
(* Inputs *)

MaxRing == 2

\* domain coordinates (east, north, elevation)
DomainPoints ==
    { Vec(5, 5, 10000),              \* (0.005, 0.005, 10)
      Vec(1000, 5000000, 0),         \* |x| = 1
      Vec(5000000, -1000, 0),        \* |y| = 1
      Vec(5000000, 5000000, 10000),  \* (5000, 5000, 10)
      Vec(-3000000, 2000, 0) }       \* (-3000, 2, 0)

\* model centres (userData.center or bounding-box centre)
Centres ==
    { Vec(0, 0, 0),
      Vec(600000, 800000, 0),        \* length exactly 1000
      Vec(5000000, 5000000, 0),
      Vec(0, 0, 2000000) }

RingPoints ==
    { Vec(0, 0, 0), Vec(5000000, 5000000, 0), Vec(-3000000, 2000, 7000) }

Rings == UNION { [1..n -> RingPoints] : n \in 0..MaxRing }

----------------------------------------------------------------------------
(* The origin manager driven by its three callers *)

NoCall == [op |-> "none"]
NoResult == [none |-> TRUE]

\* model urls, and a url GLTFLoader.cache has no entry for
Urls == {"u1", "u2"}
NoEntry == [st |-> "none", fetches |-> 0, pos |-> NoResult]

\* no parse run
Idle ==
    /\ pc = "idle"
    /\ payloadOK = TRUE
    /\ hasProgress = FALSE
    /\ nSync = 0
    /\ frames = {}
    /\ layers = <<>>
    /\ assetCount = 0
    /\ assets = <<>>
    /\ cache = [u \in Urls |-> NoEntry]
    /\ completed = 0
    /\ reports = <<>>
    /\ origin0 = NoOrigin
    /\ scene = {}
    /\ cause = "none"

\* no load call made on the GLTFLoader
NoLoads ==
    /\ calls = <<>>
    /\ objects = <<>>
    /\ materials = <<>>
    /\ canon = [u \in Urls |-> 0]
    /\ resolved = [u \in Urls |-> NoResult]
    /\ instances = <<>>

\* no terrain buffer decoded
NoBuffer == [nobuffer |-> TRUE]
NoDecode ==
    /\ buffer = NoBuffer
    /\ mesh = NoResult

\* the history variables after a call that took heap Heap(origin, firstArg) to h
Commit(h, who) ==
    /\ origin' = OriginOf(h)
    /\ firstArg' = h.arg
    /\ writer' = IF origin = NoOrigin /\ OriginOf(h) # NoOrigin THEN who ELSE writer
    /\ writes' = IF OriginOf(h) # origin THEN writes + 1 ELSE writes

InitOrigin ==
    /\ origin = NoOrigin
    /\ firstArg = NoOrigin
    /\ writer = "none"
    /\ writes = 0
    /\ last = NoCall
    /\ memo = [p \in DomainPoints |-> NoResult]
    /\ Idle
    /\ NoLoads
    /\ NoDecode

CallNormalizeCoordinate ==
    \E p \in DomainPoints :
        LET n == normalizeCoordinate(Heap(origin, firstArg), p.x, p.y, p.z)
            res == n.h.mem[n.r]
        IN /\ Commit(n.h, "normalizeCoordinate")
           /\ last' = [op |-> "normalizeCoordinate", p |-> p, before |-> origin,
                       pos |-> res]
           /\ memo' = IF OriginOf(n.h) = NoOrigin THEN memo
                      ELSE IF memo[p] = NoResult
                           THEN [memo EXCEPT ![p] = [pos |-> res, again |-> FALSE]]
                           ELSE [memo EXCEPT ![p].again = TRUE]

ModelLoaded ==
    \E hint \in Centres \cup {NoHint}, bbox \in Centres :
        LET m == loadInternal(Heap(origin, firstArg), hint, bbox)
        IN /\ Commit(m.h, "loadInternal")
           /\ last' = [op |-> "loadInternal", hint |-> hint, bbox |-> bbox,
                       before |-> origin, pos |-> m.h.mem[m.r]]
           /\ UNCHANGED memo

ImportRing ==
    \E ring \in Rings :
        LET g == processRing(Heap(origin, firstArg), ring, <<>>)
        IN /\ Commit(g.h, "processRing")
           /\ last' = [op |-> "processRing", ring |-> ring, before |-> origin,
                       vs |-> g.vs]
           /\ UNCHANGED memo

\* main.ts lines 580-582: the world coordinates shown for a render point
worldCoords(point, o) ==
    [E |-> point.x + o.x, N |-> -(point.z + o.z), H |-> point.y + o.y]

\* the mousemove handler of main.ts, lines 571-589, with the pointer on the
\* render point the last normalizeCoordinate call returned; getOrigin gives
\* a vector with or without an origin, so the branch of line 575 is taken
MouseMove ==
    /\ last.op = "normalizeCoordinate"
    /\ LET g == getOrigin(Heap(origin, firstArg))
       IN last' = [op |-> "mousemove", p |-> last.p, point |-> last.pos,
                   before |-> origin, shown |-> worldCoords(last.pos, g.h.mem[g.r])]
    /\ UNCHANGED <<origin, firstArg, writer, writes, memo>>

NextOrigin ==
    \/ CallNormalizeCoordinate /\ UNCHANGED <<pvars, lvars, xvars>>
    \/ MouseMove /\ UNCHANGED <<pvars, lvars, xvars>>
    \/ ModelLoaded /\ UNCHANGED <<pvars, lvars, xvars>>
    \/ ImportRing /\ UNCHANGED <<pvars, lvars, xvars>>

SpecOrigin == InitOrigin /\ [][NextOrigin]_vars

----------------------------------------------------------------------------
(* One FieldTwinLoader.parse run.  The records of the payload. *)

MaxSync == 2       \* shapes + wells + connections of the payload
MaxPath == 2       \* points of a well path or of a connection
MaxLayers == 2     \* entries of payload.layers
MaxAssets == 2     \* entries of payload.stagedAssets

artifactEps == 10  \* 0.01
connBias == 100    \* 0.1
defaultSide == 10000     \* 10, a box side that is missing or zero
defaultRadius == 5000    \* 5, a cylinder radius that is missing or zero
fallbackSide == 5000     \* 5, the box of a shape of any other type

NullRecord == [kind |-> "null"]            \* a null entry of a collection
Invisible == [kind |-> "invisible"]        \* an entry with visible === false
NullPoint == [nullpoint |-> TRUE]          \* a null element of a path

PathPoints ==
    { Vec(1000, 5000000, 0), Vec(5000000, 5000000, 10000), Vec(-3000000, 2000, 0) }
Paths == UNION { [1..n -> PathPoints \cup {NullPoint}] : n \in 0..MaxPath }

\* positions at the edge of the artifact test: |x| = 0.01, and one small
\* component only
ArtifactEdge == { Vec(10, 5, 0), Vec(5, 5000000, 0) }

\* the dimension fields of a shape, 0 for a field that is zero or missing
Dimensions(w, h, d, rt, rb, ch) ==
    [boxWidth |-> w, boxHeight |-> h, boxDepth |-> d, cylinderRadiusTop |-> rt,
     cylinderRadiusBottom |-> rb, cylinderHeight |-> ch]
ShapeDimensions ==
    { Dimensions(0, 0, 0, 0, 0, 0),
      Dimensions(20000, 0, 30000, 0, 4000, 0),
      Dimensions(20000, 20000, 20000, 3000, 4000, 50000) }
ShapeTypes == {"Cube", "Cylinder", "Other"}

Shape(p, ty, dm) == [kind |-> "shape", p |-> p, shapeType |-> ty, dims |-> dm]
Shapes ==
    {NullRecord, Invisible}
    \cup {Shape(p, "Cube", Dimensions(20000, 20000, 20000, 0, 0, 0)) :
              p \in DomainPoints \cup ArtifactEdge}
    \cup {Shape(Vec(5000000, 5000000, 10000), ty, dm) :
              ty \in ShapeTypes, dm \in ShapeDimensions}
Wells == {NullRecord, Invisible} \cup {[kind |-> "well", path |-> q] : q \in Paths}
Connections ==
    {NullRecord, Invisible} \cup {[kind |-> "connection", sampled |-> q] : q \in Paths}

\* result of a create* call: heap, whether an entity was returned, the
\* positions computed, the origins they were taken against, whether it threw
\* geo is the geometry of a shape
Made(h, made, pts, fr, threw) ==
    [h |-> h, made |-> made, pts |-> pts, fr |-> fr, threw |-> threw, geo |-> NoResult]

\* v || dflt on numbers
Or(v, dflt) == IF v # 0 THEN v ELSE dflt

\* the dimensions taken as they are, without the defaults
shapeGeometryRaw(shape) ==
    CASE shape.shapeType = "Cube" ->
           [type |-> "Box",
            size |-> <<shape.dims.boxWidth, shape.dims.boxHeight, shape.dims.boxDepth>>]
      [] shape.shapeType = "Cylinder" ->
           [type |-> "Cylinder",
            size |-> <<shape.dims.cylinderRadiusTop, shape.dims.cylinderRadiusBottom,
                       shape.dims.cylinderHeight>>]
      [] OTHER -> [type |-> "Box", size |-> <<fallbackSide, fallbackSide, fallbackSide>>]

\* lines 676-695
shapeGeometry(shape) ==
    LET width == Or(shape.dims.boxWidth, defaultSide)
        height == Or(shape.dims.boxHeight, defaultSide)
        depth == Or(shape.dims.boxDepth, defaultSide)
    IN CASE shape.shapeType = "Cube" ->
              [type |-> "Box", size |-> <<width, height, depth>>]
         [] shape.shapeType = "Cylinder" ->
              [type |-> "Cylinder",
               size |-> <<Or(shape.dims.cylinderRadiusTop, defaultRadius),
                          Or(shape.dims.cylinderRadiusBottom, defaultRadius),
                          Or(shape.dims.cylinderHeight, height)>>]
         [] OTHER -> [type |-> "Box", size |-> <<fallbackSide, fallbackSide, fallbackSide>>]

\* a shape dropped when either horizontal component is near zero
createShapeEither(h, shape) ==
    IF Abs(shape.p.x) < artifactEps \/ Abs(shape.p.y) < artifactEps
    THEN Made(h, FALSE, <<>>, {}, FALSE)
    ELSE LET n == normalizeCoordinate(h, shape.p.x, shape.p.y, shape.p.z)
         IN [Made(n.h, TRUE, <<n.h.mem[n.r]>>, {OriginOf(n.h)}, FALSE)
                EXCEPT !.geo = shapeGeometry(shape)]

createShape(h, shape) ==
    IF Abs(shape.p.x) < artifactEps /\ Abs(shape.p.y) < artifactEps
    THEN Made(h, FALSE, <<>>, {}, FALSE)
    ELSE LET n == normalizeCoordinate(h, shape.p.x, shape.p.y, shape.p.z)
         IN [Made(n.h, TRUE, <<n.h.mem[n.r]>>, {OriginOf(n.h)}, FALSE)
                EXCEPT !.geo = shapeGeometry(shape)]

\* points.push(normalizeCoordinate(p.x, p.y, sign * p.z + bias)) over a path;
\* reading p.x of a null element throws
RECURSIVE pushPoints(_, _, _, _, _, _)
pushPoints(h, path, sign, bias, pts, fr) ==
    IF path = <<>> THEN Made(h, TRUE, pts, fr, FALSE)
    ELSE IF Head(path) = NullPoint THEN Made(h, FALSE, pts, fr, TRUE)
    ELSE LET p == Head(path)
             n == normalizeCoordinate(h, p.x, p.y, sign * p.z + bias)
         IN pushPoints(n.h, Tail(path), sign, bias, Append(pts, n.h.mem[n.r]),
                       fr \cup {OriginOf(n.h)})

\* the points w collected make an entity when there are at least n of them
\* (lines 728 and 759) and none threw
ifPoints(w, n) ==
    IF w.threw \/ Len(w.pts) < n THEN Made(w.h, FALSE, w.pts, {}, w.threw) ELSE w

createWell(h, well) ==
    IF Len(well.path) = 0 THEN Made(h, FALSE, <<>>, {}, FALSE)
    ELSE ifPoints(pushPoints(h, well.path, -1, 0, <<>>, {}), 2)

createConnection(h, conn) ==
    IF Len(conn.sampled) = 0 THEN Made(h, FALSE, <<>>, {}, FALSE)
    ELSE ifPoints(pushPoints(h, conn.sampled, 1, connBias, <<>>, {}), 2)

createRecord(h, rec) ==
    CASE rec.kind = "shape" -> createShape(h, rec)
      [] rec.kind = "well" -> createWell(h, rec)
      [] rec.kind = "connection" -> createConnection(h, rec)

\* a percent value n/d
Pct(n, d) == [n |-> n, d |-> d]
Report(has, rs, v) == IF has THEN Append(rs, v) ELSE rs

InitParse ==
    /\ origin = NoOrigin
    /\ firstArg = NoOrigin
    /\ writer = "none"
    /\ writes = 0
    /\ last = NoCall
    /\ memo = [p \in DomainPoints |-> NoResult]
    /\ pc = "start"
    /\ payloadOK \in BOOLEAN
    /\ hasProgress \in BOOLEAN
    /\ nSync = 0
    /\ frames = {}
    /\ layers = <<>>
    /\ assetCount = 0
    /\ assets = <<>>
    /\ cache = [u \in Urls |-> NoEntry]
    /\ completed = 0
    /\ reports = <<>>
    /\ origin0 = NoOrigin
    /\ scene = {}
    /\ cause = "none"
    /\ NoLoads
    /\ NoDecode

\* parse, lines 149-183: Object.keys(data) throws on an unreadable payload
ParseStart ==
    /\ pc = "start"
    /\ IF payloadOK
       THEN /\ pc' = "shapes"
            /\ reports' = Report(hasProgress, reports, Pct(5, 1))
            /\ cause' = cause
       ELSE /\ pc' = "rejected"
            /\ cause' = "payload"
            /\ reports' = reports
    /\ UNCHANGED <<ovars, payloadOK, hasProgress, nSync, frames, layers, assetCount,
                   assets, cache, completed, origin0, scene>>

\* one iteration of a forEach of lines 189-197, 206-217, 226-234: the read of
\* rec.visible is outside the try, the create* call inside it
ParseRecord(phase, recs) ==
    /\ pc = phase
    /\ nSync < MaxSync
    /\ nSync' = nSync + 1
    /\ \E rec \in recs :
         IF rec = NullRecord
         THEN /\ pc' = "rejected"
              /\ cause' = "record"
              /\ last' = [op |-> phase, rec |-> rec, before |-> origin]
              /\ UNCHANGED <<origin, firstArg, writer, writes, frames>>
         ELSE IF rec = Invisible
         THEN /\ last' = [op |-> phase, rec |-> rec, before |-> origin]
              /\ UNCHANGED <<origin, firstArg, writer, writes, frames, pc, cause>>
         ELSE \E m \in {createRecord(Heap(origin, firstArg), rec)} :
                 /\ Commit(m.h, "normalizeCoordinate")
                 /\ frames' = IF m.made THEN frames \cup m.fr ELSE frames
                 /\ last' = [op |-> phase, rec |-> rec, before |-> origin,
                             made |-> m.made, pts |-> m.pts, threw |-> m.threw,
                             geo |-> m.geo]
                 /\ UNCHANGED <<pc, cause>>
    /\ UNCHANGED <<memo, payloadOK, hasProgress, layers, assetCount, assets, cache,
                   completed, reports, origin0, scene>>

ParseShape == ParseRecord("shapes", Shapes)
ParseWell == ParseRecord("wells", Wells)
ParseConnection == ParseRecord("connections", Connections)

\* end of the shapes loop, end of the wells loop
NextGroup ==
    /\ pc \in {"shapes", "wells"}
    /\ pc' = IF pc = "shapes" THEN "wells" ELSE "connections"
    /\ UNCHANGED <<ovars, payloadOK, hasProgress, nSync, frames, layers, assetCount,
                   assets, cache, completed, reports, origin0, scene, cause>>

----------------------------------------------------------------------------
(* The asynchronous part of parse: terrain layers, then staged assets *)

LayerCentres == { Vec(5000000, 5000000, 0), Vec(400000, 7000000, 0) }
LayerRecords ==
    {NullRecord, Invisible, [kind |-> "placeholder"]}      \* placeholder: no url or not XVB
    \cup {[kind |-> "xvb", fetch |-> f, c |-> Zero] : f \in {"reject", "invalid"}}
    \cup {[kind |-> "xvb", fetch |-> "ok", c |-> c] : c \in LayerCentres}

\* (0.005, 0.005, 10); |x| = 0.01; (5000, 5000, 10)
AssetPoints == { Vec(5, 5, 10000), Vec(10, 5, 0), Vec(5000000, 5000000, 10000) }
AssetRecords ==
    {NullRecord, Invisible, [kind |-> "nourl"]}
    \cup {[kind |-> "asset", url |-> u, p |-> p] : u \in Urls, p \in AssetPoints}

\* what the fetch of a model can deliver
ModelResults ==
    { [ok |-> FALSE, hint |-> NoHint, bbox |-> Zero],
      [ok |-> TRUE, hint |-> NoHint, bbox |-> Zero],
      [ok |-> TRUE, hint |-> NoHint, bbox |-> Vec(5000000, 5000000, 0)],
      [ok |-> TRUE, hint |-> Vec(0, 0, 2000000), bbox |-> Zero] }

SeqsUpTo(S, n) == UNION { [1..k -> S] : k \in 0..n }

Task(rec, st, out, rep, pos, fr) ==
    [rec |-> rec, st |-> st, out |-> out, rep |-> rep, pos |-> pos, fr |-> fr]
\* what is kept of a layer record once the layer stage is over
FetchFailed(rec) == rec.kind = "xvb" /\ rec.fetch # "ok"
Settled(failed) == [kind |-> "settled", failed |-> failed]
Min(a, b) == IF a < b THEN a ELSE b

\* progress state: completedTasks and the values reported
Progress(c, rs) == [completed |-> c, reports |-> rs]

\* the percent computed before completedTasks is incremented
updateProgressStale(has, total, pr) ==
    IF has /\ total > 0
    THEN LET c == pr.completed + 1
         IN Progress(c, Append(pr.reports,
                               Pct(Min(10 * total + 90 * pr.completed, 100 * total),
                                   total)))
    ELSE pr

\* updateProgress, lines 174-181
updateProgress(has, total, pr) ==
    IF has /\ total > 0
    THEN LET c == pr.completed + 1
         IN Progress(c, Append(pr.reports,
                               Pct(Min(10 * total + 90 * c, 100 * total), total)))
    ELSE pr

RECURSIVE updateProgressN(_, _, _, _)
updateProgressN(has, total, pr, n) ==
    IF n = 0 THEN pr ELSE updateProgressN(has, total, updateProgress(has, total, pr), n - 1)

\* an invisible layer returning without reporting
layerCallbackSilent(rec) ==
    CASE rec = NullRecord -> Task(rec, "threw", "none", 0, NoResult, NoResult)
      [] rec = Invisible -> Task(rec, "done", "none", 0, NoResult, NoResult)
      [] rec.kind = "placeholder" -> Task(rec, "done", "placeholder", 1, NoResult, NoResult)
      [] rec.kind = "xvb" -> Task(rec, "fetching", "none", 0, NoResult, NoResult)

\* the map callback of lines 245-274 up to its first await
layerCallback(rec) ==
    CASE rec = NullRecord -> Task(rec, "threw", "none", 0, NoResult, NoResult)
      [] rec = Invisible -> Task(rec, "done", "none", 1, NoResult, NoResult)
      [] rec.kind = "placeholder" -> Task(rec, "done", "placeholder", 1, NoResult, NoResult)
      [] rec.kind = "xvb" -> Task(rec, "fetching", "none", 0, NoResult, NoResult)

Reps(tasks) == Cardinality({i \in DOMAIN tasks : tasks[i].rep > 0})
Threw(tasks) == \E i \in DOMAIN tasks : tasks[i].st = "threw"
\* Promise.race in the place of Promise.all: settled as soon as one task is
AnyDone(tasks) == \E i \in DOMAIN tasks : tasks[i].st = "done"

\* Promise.all of the task promises fulfilled (lines 275 and 306)
AllDone(tasks) == \A i \in DOMAIN tasks : tasks[i].st = "done"

\* a cache of loaded models instead of promises: a url whose fetch is still
\* pending counts as absent
loadAfterFetch(cch, u) ==
    IF cch[u].st \in {"none", "pending"}
    THEN [cch EXCEPT ![u] = [st |-> "pending", fetches |-> @.fetches + 1,
                             pos |-> NoResult]]
    ELSE cch

\* a cache that drops a rejected promise: the next call fetches again
loadRetry(cch, u) ==
    IF cch[u].st \in {"none", "rejected"}
    THEN [cch EXCEPT ![u] = [st |-> "pending", fetches |-> @.fetches + 1,
                             pos |-> NoResult]]
    ELSE cch

\* GLTFLoader.load up to its await, lines 242-244: the promise of
\* loadInternal(url) is cached unless the url has one
load(cch, u) ==
    IF cch[u].st = "none"
    THEN [cch EXCEPT ![u] = [st |-> "pending", fetches |-> @.fetches + 1,
                             pos |-> NoResult]]
    ELSE cch

\* the map callback of lines 287-305 and createStagedAsset up to the await of
\* gltfLoader.load, over the assets in order
RECURSIVE assetCallbacks(_, _, _, _)
assetCallbacks(h, recs, tasks, cch) ==
    IF recs = <<>> THEN [h |-> h, tasks |-> tasks, cache |-> cch]
    ELSE LET rec == Head(recs)
         IN CASE rec = NullRecord ->
                   assetCallbacks(h, Tail(recs),
                       Append(tasks, Task(rec, "threw", "none", 0, NoResult, NoResult)), cch)
              [] rec = Invisible \/ rec.kind = "nourl" ->
                   assetCallbacks(h, Tail(recs),
                       Append(tasks, Task(rec, "done", "none", 1, NoResult, NoResult)), cch)
              [] rec.kind = "asset" ->
                   IF Abs(rec.p.x) < artifactEps /\ Abs(rec.p.y) < artifactEps
                   THEN assetCallbacks(h, Tail(recs),
                            Append(tasks, Task(rec, "done", "none", 1, NoResult, NoResult)),
                            cch)
                   ELSE LET n == normalizeCoordinate(h, rec.p.x, rec.p.y, rec.p.z)
                            t == Task(rec, "loading", "none", 0, n.h.mem[n.r], OriginOf(n.h))
                            c2 == load(cch, rec.url)
                        IN assetCallbacks(n.h, Tail(recs), Append(tasks, t), c2)

\* lines 283-311 up to the await of Promise.all, entered with heap h and
\* progress pr, for nl layers and ac staged assets; the assets are read here
\* for the first time
StagedAssets(h, pr, nl, ac) ==
    \E recs \in [1..ac -> AssetRecords] :
        LET d == assetCallbacks(h, recs, <<>>, cache)
            pr2 == updateProgressN(hasProgress, nl + ac, pr, Reps(d.tasks))
        IN /\ Commit(d.h, "normalizeCoordinate")
           /\ assets' = d.tasks
           /\ cache' = d.cache
           /\ completed' = pr2.completed
           /\ reports' = pr2.reports
           /\ pc' = IF Threw(d.tasks) THEN "rejected"
                    ELSE IF ac = 0 THEN "resolved" ELSE "assets"
           /\ cause' = IF Threw(d.tasks) THEN "record" ELSE cause

\* lines 238-275 up to the await of Promise.all; with no layers the run goes
\* straight on to the staged assets
StartDownloads ==
    /\ pc = "connections"
    /\ \E recs \in SeqsUpTo(LayerRecords, MaxLayers), ac \in 0..MaxAssets :
         LET tasks == [i \in DOMAIN recs |-> layerCallback(recs[i])]
             pr0 == Progress(completed, Report(hasProgress, reports, Pct(10, 1)))
             pr == updateProgressN(hasProgress, Len(recs) + ac, pr0, Reps(tasks))
         IN /\ layers' = tasks
            /\ assetCount' = ac
            /\ origin0' = origin
            /\ IF recs = <<>>
               THEN StagedAssets(Heap(origin, firstArg), pr, 0, ac)
               ELSE /\ pc' = IF Threw(tasks) THEN "rejected" ELSE "layers"
                    /\ cause' = IF Threw(tasks) THEN "record" ELSE cause
                    /\ completed' = pr.completed
                    /\ reports' = pr.reports
                    /\ UNCHANGED <<origin, firstArg, writer, writes, assets, cache>>
    /\ last' = NoCall
    /\ nSync' = 0
    /\ UNCHANGED <<memo, payloadOK, hasProgress, frames, scene>>

Total == Len(layers) + assetCount

\* the try/catch of loadXvbLayer and of the layer callback left out
xvbFetchedUncaught(h, rec) ==
    CASE rec.fetch = "reject" -> [h |-> h, st |-> "threw", pos |-> NoResult, fr |-> NoResult]
      [] rec.fetch = "invalid" -> [h |-> h, st |-> "done", pos |-> NoResult, fr |-> NoResult]
      [] rec.fetch = "ok" ->
           LET n == normalizeCoordinate(h, rec.c.x, rec.c.y, 0)
           IN [h |-> n.h, st |-> "diffuse", pos |-> n.h.mem[n.r], fr |-> OriginOf(n.h)]

\* loadXvbLayer from the settled fetch (line 323) to the await of the diffuse
\* texture (line 513): a rejected fetch is caught (line 485), a buffer that
\* fails validation returns null, a valid one positions the mesh at its centre
xvbFetched(h, rec) ==
    CASE rec.fetch = "reject" -> [h |-> h, st |-> "done", pos |-> NoResult, fr |-> NoResult]
      [] rec.fetch = "invalid" -> [h |-> h, st |-> "done", pos |-> NoResult, fr |-> NoResult]
      [] rec.fetch = "ok" ->
           LET n == normalizeCoordinate(h, rec.c.x, rec.c.y, 0)
           IN [h |-> n.h, st |-> "diffuse", pos |-> n.h.mem[n.r], fr |-> OriginOf(n.h)]

LayerFetched(i) ==
    /\ layers[i].st = "fetching"
    /\ LET f == xvbFetched(Heap(origin, firstArg), layers[i].rec)
           fin == f.st = "done"
           pr == IF fin
                 THEN updateProgress(hasProgress, Total, Progress(completed, reports))
                 ELSE Progress(completed, reports)
       IN /\ Commit(f.h, "normalizeCoordinate")
          /\ layers' = [layers EXCEPT ![i].st = f.st, ![i].pos = f.pos, ![i].fr = f.fr,
                                      ![i].rep = IF fin THEN @ + 1 ELSE @]
          /\ completed' = pr.completed
          /\ reports' = pr.reports
          /\ pc' = IF f.st = "threw" /\ pc = "layers" THEN "rejected" ELSE pc
          /\ cause' = IF f.st = "threw" /\ pc = "layers" THEN "fetch" ELSE cause
    /\ UNCHANGED <<last, memo, payloadOK, hasProgress, nSync, frames, assetCount, assets,
                   cache, origin0, scene>>

\* createSeabedMaterial, lines 512-570: the next await after a texture load
\* settled.  named: the layer names a texture other than the default;
\* normalMap: the layer has a urlNormalMap.
materialNext(st, ok, named, normalMap) ==
    CASE st = "diffuse" -> IF ~ok /\ named THEN "fallback"
                           ELSE IF normalMap THEN "normal" ELSE "done"
      [] st = "fallback" -> IF normalMap THEN "normal" ELSE "done"
      [] st = "normal" -> "done"

TextureSettled(i) ==
    /\ layers[i].st \in {"diffuse", "fallback", "normal"}
    /\ \E ok \in BOOLEAN, named \in BOOLEAN, normalMap \in BOOLEAN :
         LET st == materialNext(layers[i].st, ok, named, normalMap)
             fin == st = "done"
             pr == IF fin
                   THEN updateProgress(hasProgress, Total, Progress(completed, reports))
                   ELSE Progress(completed, reports)
         IN /\ layers' = [layers EXCEPT ![i].st = st,
                                        ![i].out = IF fin THEN "mesh" ELSE @,
                                        ![i].rep = IF fin THEN @ + 1 ELSE @]
            /\ frames' = IF fin THEN frames \cup {layers[i].fr} ELSE frames
            /\ completed' = pr.completed
            /\ reports' = pr.reports
    /\ UNCHANGED <<ovars, pc, payloadOK, hasProgress, nSync, assetCount, assets, cache,
                   origin0, scene, cause>>

\* line 277: mapGroup.children.length > 0
mapGroupAdded(tasks) ==
    \E i \in DOMAIN tasks : tasks[i].out \in {"mesh", "placeholder"}

\* Promise.all of the layer promises resolved: lines 277-306
LayersSettled ==
    /\ pc = "layers"
    /\ AllDone(layers)
    /\ scene' = IF mapGroupAdded(layers) THEN scene \cup {"Terrain Layers"} ELSE scene
    /\ layers' = [i \in DOMAIN layers |->
                     [layers[i] EXCEPT !.rec = Settled(FetchFailed(@)), !.pos = NoResult,
                                       !.fr = NoResult]]
    /\ StagedAssets(Heap(origin, firstArg), Progress(completed, reports), Len(layers),
                    assetCount)
    /\ UNCHANGED <<last, memo, payloadOK, hasProgress, nSync, frames, assetCount, origin0>>

Waiting(u) == {j \in DOMAIN assets : assets[j].st = "loading" /\ assets[j].rec.url = u}

\* the fetch of url u settled: loadInternal's callbacks, lines 263-331, then
\* every load(u) awaiting cache.get(u) resumes (lines 246-256) and its asset
\* callback finishes (lines 296-301)
ModelFetched(u) ==
    /\ cache[u].st = "pending"
    /\ \E r \in ModelResults :
         LET m == IF r.ok THEN loadInternal(Heap(origin, firstArg), r.hint, r.bbox)
                  ELSE [h |-> Heap(origin, firstArg), r |-> 0]
             pr == updateProgressN(hasProgress, Total, Progress(completed, reports),
                                   Cardinality(Waiting(u)))
         IN /\ Commit(m.h, "loadInternal")
            /\ cache' = [cache EXCEPT ![u].st = IF r.ok THEN "resolved" ELSE "rejected",
                                      ![u].pos = IF r.ok THEN m.h.mem[m.r] ELSE NoResult]
            /\ assets' = [j \in DOMAIN assets |->
                            IF j \in Waiting(u)
                            THEN [assets[j] EXCEPT !.st = "done", !.rep = @ + 1,
                                                   !.out = IF r.ok THEN "model" ELSE "none"]
                            ELSE assets[j]]
            /\ frames' = IF r.ok THEN frames \cup {assets[j].fr : j \in Waiting(u)}
                         ELSE frames
            /\ completed' = pr.completed
            /\ reports' = pr.reports
    /\ UNCHANGED <<last, memo, pc, payloadOK, hasProgress, nSync, layers, assetCount,
                   origin0, scene, cause>>

\* Promise.all of the asset promises resolved: lines 308-314
AssetsSettled ==
    /\ pc = "assets"
    /\ AllDone(assets)
    /\ scene' = IF \E j \in DOMAIN assets : assets[j].out = "model"
                THEN scene \cup {"Staged Assets"} ELSE scene
    /\ pc' = "resolved"
    /\ UNCHANGED <<ovars, payloadOK, hasProgress, nSync, frames, layers, assetCount,
                   assets, cache, completed, reports, origin0, cause>>

----------------------------------------------------------------------------
(* GLTFLoader.load driven by its callers, and the wireframe control of      *)
(* main.ts.  A model is an Object3D with its own position, scale and       *)
(* rotation vectors and one mesh that refers to a Material.                *)

MaxLoads == 3      \* load calls made on the GLTFLoader

NoArg == [undefined |-> TRUE]      \* an optional argument left out
One == Vec(1, 1, 1)
Transform(p, s, r) == [position |-> p, scale |-> s, rotation |-> r]
TransformOf(o) == Transform(o.position, o.scale, o.rotation)
Object3D(t, m) ==
    [position |-> t.position, scale |-> t.scale, rotation |-> t.rotation, mat |-> m]

\* (position, scale, rotation) argument lists of load
LoadArgs ==
    { Transform(NoArg, NoArg, NoArg),
      Transform(Vec(7000, 0, 0), NoArg, NoArg),
      Transform(Vec(0, 0, -9000), Vec(2, 2, 2), Vec(0, 90, 0)),
      Transform(NoArg, Vec(3, 3, 3), NoArg) }

\* original.clone(true), line 247: Object3D.copy copies the position, scale
\* and rotation into the new object's own vectors; Mesh.copy assigns the
\* source's material, so the new mesh refers to the same Material
cloneObject(objs, r) == Append(objs, objs[r])

\* lines 250-252
applyArgs(o, t) ==
    [o EXCEPT !.position = IF t.position # NoArg THEN t.position ELSE @,
              !.scale = IF t.scale # NoArg THEN t.scale ELSE @,
              !.rotation = IF t.rotation # NoArg THEN t.rotation ELSE @]

\* the arguments applied to the cached model itself, which is returned
loadResumedInPlace(objs, original, t) ==
    [objs |-> [objs EXCEPT ![original] = applyArgs(@, t)], r |-> original]

\* GLTFLoader.load from its await on, lines 246-256:
\* [objs |-> object heap, r |-> reference of the model returned]
loadResumed(objs, original, t) ==
    LET o2 == cloneObject(objs, original)
        model == Len(o2)
    IN [objs |-> [o2 EXCEPT ![model] = applyArgs(@, t)], r |-> model]

\* a load call that returned model obj cloned from src (0, 0: it rejected);
\* wire is the history of the wireframe value last chosen for this model
Instance(u, t, obj, src) ==
    [url |-> u, args |-> t, obj |-> obj, src |-> src, wire |-> FALSE]

\* the continuations of the calls awaiting url u, in call order
RECURSIVE resumeAll(_, _, _, _, _, _)
resumeAll(objs, cs, u, original, keep, out) ==
    IF cs = <<>> THEN [objs |-> objs, calls |-> keep, out |-> out]
    ELSE LET c == Head(cs)
         IN IF c.url # u
            THEN resumeAll(objs, Tail(cs), u, original, Append(keep, c), out)
            ELSE IF original = 0
            THEN resumeAll(objs, Tail(cs), u, original, keep,
                           Append(out, Instance(u, c.args, 0, 0)))
            ELSE LET d == loadResumed(objs, original, c.args)
                 IN resumeAll(d.objs, Tail(cs), u, original, keep,
                              Append(out, Instance(u, c.args, d.r, original)))

\* the wireframe onChange handler of addLayerToGUI, main.ts lines 797-818,
\* on the model with reference r
wireframe(mats, objs, r, val) == [mats EXCEPT ![objs[r].mat].wireframe = val]

qvars == <<pc, payloadOK, hasProgress, nSync, frames, layers, assetCount, assets,
           completed, reports, origin0, scene, cause>>

\* a caller calls load(u, position, scale, rotation); on a settled promise
\* the continuation runs before any other task
LoadCall ==
    /\ Len(calls) + Len(instances) < MaxLoads
    /\ \E u \in Urls, t \in LoadArgs :
         LET c2 == load(cache, u)
         IN /\ cache' = c2
            /\ CASE c2[u].st = "pending" ->
                      /\ calls' = Append(calls, [url |-> u, args |-> t])
                      /\ UNCHANGED <<objects, instances>>
                 [] c2[u].st = "resolved" ->
                      LET d == loadResumed(objects, canon[u], t)
                      IN /\ objects' = d.objs
                         /\ instances' = Append(instances, Instance(u, t, d.r, canon[u]))
                         /\ UNCHANGED calls
                 [] c2[u].st = "rejected" ->
                      /\ instances' = Append(instances, Instance(u, t, 0, 0))
                      /\ UNCHANGED <<calls, objects>>
    /\ UNCHANGED <<ovars, qvars, materials, canon, resolved, xvars>>

\* the fetch started by loadInternal(u) settled: the promise resolves with
\* the model positioned by lines 263-326 or rejects (line 330), and every
\* call awaiting it resumes
FetchSettled(u) ==
    /\ cache[u].st = "pending"
    /\ \E r \in ModelResults :
         IF r.ok
         THEN LET m == loadInternal(Heap(origin, firstArg), r.hint, r.bbox)
                  t == Transform(m.h.mem[m.r], One, Zero)
                  mats == Append(materials, [wireframe |-> FALSE])
                  objs == Append(objects, Object3D(t, Len(mats)))
                  d == resumeAll(objs, calls, u, Len(objs), <<>>, instances)
              IN /\ Commit(m.h, "loadInternal")
                 /\ cache' = [cache EXCEPT ![u].st = "resolved", ![u].pos = t.position]
                 /\ materials' = mats
                 /\ canon' = [canon EXCEPT ![u] = Len(objs)]
                 /\ resolved' = [resolved EXCEPT ![u] = t]
                 /\ objects' = d.objs
                 /\ calls' = d.calls
                 /\ instances' = d.out
         ELSE LET d == resumeAll(objects, calls, u, 0, <<>>, instances)
              IN /\ cache' = [cache EXCEPT ![u].st = "rejected"]
                 /\ calls' = d.calls
                 /\ instances' = d.out
                 /\ UNCHANGED <<origin, firstArg, writer, writes, objects, materials,
                                canon, resolved>>
    /\ UNCHANGED <<last, memo, qvars, xvars>>

\* the user switches the wireframe control of a loaded model
ToggleWireframe ==
    /\ \E k \in DOMAIN instances, val \in BOOLEAN :
         /\ instances[k].obj # 0
         /\ materials' = wireframe(materials, objects, instances[k].obj, val)
         /\ instances' = [instances EXCEPT ![k].wire = val]
    /\ UNCHANGED <<ovars, pvars, calls, objects, canon, resolved, xvars>>

NextLoader ==
    \/ LoadCall
    \/ \E u \in Urls : FetchSettled(u)
    \/ ToggleWireframe

SpecLoader == InitOrigin /\ [][NextLoader]_vars

----------------------------------------------------------------------------
(* The terrain decoder: FieldTwinLoader.loadXvbLayer from the downloaded    *)
(* ArrayBuffer to the index buffer.  A buffer is its byte length, the two  *)
(* Int32 of its header (width, height), the Float32 at byte 16 (minZ) and  *)
(* the Float32 samples from byte 32 on.  Elevations are whole numbers.     *)

MaxExtra == 1      \* samples a buffer may carry beyond width * height

maxDimension == 16384
headerBytes == 32

SmallDims == {1, 2, 3}
Dims == {-1, 0, 16384, 16385} \cup SmallDims
Elevations == {-1, 0, 1}

\* numbers of samples tried for a header that declares w by h
Counts(w, h) ==
    IF w \in SmallDims /\ h \in SmallDims
    THEN {n \in (w * h - 1)..(w * h + MaxExtra) : n >= 0}
    ELSE {0, 1}

ArrayBuffer(len, w, h, mz, hs) ==
    [byteLength |-> len, width |-> w, height |-> h, minZ |-> mz, heights |-> hs]

\* the buffer is one of 32 + 4n bytes, of 33 + 4n bytes, or shorter than a
\* header
DrawBuffer ==
    \/ \E w \in Dims, h \in Dims :
          \E n \in Counts(w, h) :
              \E hs \in [1..n -> Elevations] :
                  buffer = ArrayBuffer(headerBytes + 4 * n, w, h, 0, hs)
    \/ \E n \in {0, 1}, w \in {1, 16385} :
          buffer = ArrayBuffer(headerBytes + 4 * n + 1, w, 1, 0, [i \in 1..n |-> 0])
    \/ \E len \in {0, 8} : buffer = ArrayBuffer(len, 1, 1, 0, <<>>)

\* lines 326-327: (byteLength + 3) & ~3 is byteLength rounded up to a
\* multiple of 4
validLength(len) == ~(len <= headerBytes \/ ((len + 3) \div 4) * 4 # len)

\* the dimension test without its lower bound
validDimensionsUpperOnly(w, h) == ~(w > maxDimension \/ h > maxDimension)

\* line 337
validDimensions(w, h) == ~(w <= 0 \/ h <= 0 \/ w > maxDimension \/ h > maxDimension)

\* line 351: new Float32Array(downloadedData, 32) has (byteLength - 32) / 4
\* elements; the samples the buffer carries beyond them are cut off
heightsOf(buf) == SubSeq(buf.heights, 1, (buf.byteLength - headerBytes) \div 4)

\* Math.floor(n - 1) || 1, lines 362-363
grid(n) == IF n - 1 # 0 THEN n - 1 ELSE 1

\* the test written with > : a sample equal to the minimum fails it
AtLeastStrict(hs, i, m) == i + 1 \in DOMAIN hs /\ hs[i + 1] > m

\* heights[i] >= minHeight; a read past the end of a typed array gives
\* undefined, and undefined >= minHeight is false
AtLeast(hs, i, m) == i + 1 \in DOMAIN hs /\ hs[i + 1] >= m

\* the corners of the cell (ix, iy), lines 414-417 and 435-438
Corners(gridX1, ix, iy) ==
    [a |-> ix + gridX1 * iy, b |-> ix + gridX1 * (iy + 1),
     c |-> ix + 1 + gridX1 * (iy + 1), d |-> ix + 1 + gridX1 * iy]

\* lines 419-426: what one cell adds to count
countCell(hs, m, q) ==
    IF AtLeast(hs, q.b, m) /\ AtLeast(hs, q.d, m)
    THEN (IF AtLeast(hs, q.a, m) THEN 1 ELSE 0) + (IF AtLeast(hs, q.c, m) THEN 1 ELSE 0)
    ELSE 0

\* the second triangle written without looking at its corner c
emitCellUnchecked(hs, m, q) ==
    IF AtLeast(hs, q.b, m) /\ AtLeast(hs, q.d, m)
    THEN (IF AtLeast(hs, q.a, m) THEN <<q.b, q.a, q.d>> ELSE <<>>) \o <<q.c, q.b, q.d>>
    ELSE <<>>

\* lines 440-453: the indices one cell writes
emitCell(hs, m, q) ==
    IF AtLeast(hs, q.b, m) /\ AtLeast(hs, q.d, m)
    THEN (IF AtLeast(hs, q.a, m) THEN <<q.b, q.a, q.d>> ELSE <<>>)
         \o (IF AtLeast(hs, q.c, m) THEN <<q.c, q.b, q.d>> ELSE <<>>)
    ELSE <<>>

\* the two loops over the cells, row by row; cell k is (k % gridX, k / gridX)
RECURSIVE countPass(_, _, _, _, _)
countPass(hs, m, gridX, gridY, k) ==
    IF gridX <= 0 \/ gridY <= 0 \/ k >= gridX * gridY THEN 0
    ELSE countCell(hs, m, Corners(gridX + 1, k % gridX, k \div gridX))
         + countPass(hs, m, gridX, gridY, k + 1)

RECURSIVE emitPass(_, _, _, _, _)
emitPass(hs, m, gridX, gridY, k) ==
    IF gridX <= 0 \/ gridY <= 0 \/ k >= gridX * gridY THEN <<>>
    ELSE emitCell(hs, m, Corners(gridX + 1, k % gridX, k \div gridX))
         \o emitPass(hs, m, gridX, gridY, k + 1)

\* line 430 and the writes of lines 442-450: a typed array of count * 3
\* zeros; a write past its end is dropped
typedArray(n, written) ==
    [i \in 1..n |-> IF i <= Len(written) THEN written[i] ELSE 0]

NoMesh == [out |-> "null"]

\* lines 325-460: null, or the geometry's vertex count (the position
\* attribute has width * height items), its index buffer and whether that
\* is a Uint32Array; allocated is the length the counting pass gave the
\* index buffer, written the final value of offset in the emission pass
loadXvbLayer(buf) ==
    IF ~validLength(buf.byteLength) THEN NoMesh
    ELSE IF ~validDimensions(buf.width, buf.height) THEN NoMesh
    ELSE LET hs == heightsOf(buf)
             gridX == grid(buf.width)
             gridY == grid(buf.height)
         IN IF Len(hs) < buf.width * buf.height THEN NoMesh
            ELSE [out |-> "mesh",
                  vertexCount |-> buf.width * buf.height,
                  indices |-> typedArray(3 * countPass(hs, buf.minZ, gridX, gridY, 0),
                                         emitPass(hs, buf.minZ, gridX, gridY, 0)),
                  uint32 |-> buf.width * buf.height > 65535,
                  allocated |-> 3 * countPass(hs, buf.minZ, gridX, gridY, 0),
                  written |-> Len(emitPass(hs, buf.minZ, gridX, gridY, 0))]

InitXvb ==
    /\ origin = NoOrigin
    /\ firstArg = NoOrigin
    /\ writer = "none"
    /\ writes = 0
    /\ last = NoCall
    /\ memo = [p \in DomainPoints |-> NoResult]
    /\ Idle
    /\ NoLoads
    /\ DrawBuffer
    /\ mesh = NoResult

\* the fetch of the layer resolved with buffer
Decode ==
    /\ mesh = NoResult
    /\ mesh' = loadXvbLayer(buffer)
    /\ UNCHANGED <<ovars, pvars, lvars, buffer>>

NextXvb == Decode

SpecXvb == InitXvb /\ [][NextXvb]_vars

----------------------------------------------------------------------------
(* Claims about the terrain decoder, checked under SpecXvb *)

Decoded == mesh # NoResult
Triangles == Len(mesh.indices) \div 3

\* C14: the decoder returns null (it does not throw) for every buffer of at
\* most 32 bytes, every buffer whose length is not a multiple of 4, and
\* every header that declares a width or height <= 0 or > 16384.
C14_InvalidLayerYieldsNoMesh ==
    ( /\ Decoded
      /\ \/ buffer.byteLength <= 32
         \/ buffer.byteLength % 4 # 0
         \/ buffer.width <= 0 \/ buffer.height <= 0
         \/ buffer.width > 16384 \/ buffer.height > 16384 ) =>
        mesh = NoMesh

\* a 36-byte buffer, long enough for the 0 samples it declares, with a
\* declared width of 0 was decoded to null
C14_Witness ==
    /\ Decoded
    /\ buffer.byteLength = 36
    /\ buffer.width = 0
    /\ mesh = NoMesh

\* C15 as stated: a buffer whose byte length is not 32 + 4 * width * height,
\* shorter or longer, yields no mesh.
C15_ExactLength ==
    ( /\ Decoded
      /\ buffer.byteLength # 32 + 4 * buffer.width * buffer.height ) =>
        mesh = NoMesh

\* C16 as stated: an accepted buffer gives width * height vertices and at
\* most 2 * (width - 1) * (height - 1) triangles.
C16_MeshSize ==
    (Decoded /\ mesh # NoMesh) =>
        /\ mesh.vertexCount = buffer.width * buffer.height
        /\ Triangles <= 2 * (buffer.width - 1) * (buffer.height - 1)

BelowMinimum(v) == buffer.heights[v + 1] < buffer.minZ
Vertices == 0..(buffer.width * buffer.height - 1)

\* C17: for an accepted grid of at least 2 by 2 with a vertex below the
\* declared minimum, fewer than 2 * (width - 1) * (height - 1) triangles
\* are emitted and every index emitted is a vertex that is not below the
\* minimum.
C17_MaskedCellsDropped ==
    ( /\ Decoded
      /\ mesh # NoMesh
      /\ buffer.width >= 2
      /\ buffer.height >= 2
      /\ \E v \in Vertices : BelowMinimum(v) ) =>
        /\ Triangles < 2 * (buffer.width - 1) * (buffer.height - 1)
        /\ \A i \in DOMAIN mesh.indices :
              mesh.indices[i] \in Vertices /\ ~BelowMinimum(mesh.indices[i])

\* a 3 by 3 grid whose centre vertex alone is below the minimum: the two
\* triangles that avoid the centre are left of the eight
C17_Witness ==
    /\ Decoded
    /\ buffer.width = 3
    /\ buffer.height = 3
    /\ Len(buffer.heights) = 9
    /\ BelowMinimum(4)
    /\ \A v \in Vertices : v # 4 => ~BelowMinimum(v)
    /\ mesh # NoMesh
    /\ Triangles = 2

Height(v) == buffer.heights[v + 1]
Above(v) == Height(v) > buffer.minZ

\* the corners of unit quad k of the width by height grid, in row-major
\* order: a top-left, b bottom-left, c bottom-right, d top-right
Quad(k) ==
    LET ix == k % (buffer.width - 1)
        iy == k \div (buffer.width - 1)
    IN [a |-> ix + buffer.width * iy, b |-> ix + buffer.width * (iy + 1),
        c |-> ix + 1 + buffer.width * (iy + 1), d |-> ix + 1 + buffer.width * iy]

QuadCount ==
    IF buffer.width < 2 \/ buffer.height < 2 THEN 0
    ELSE (buffer.width - 1) * (buffer.height - 1)

RECURSIVE QuadTriangles(_)
QuadTriangles(k) ==
    IF k >= QuadCount THEN <<>>
    ELSE LET q == Quad(k)
         IN (IF Above(q.b) /\ Above(q.d) /\ Above(q.a) THEN <<q.b, q.a, q.d>> ELSE <<>>)
            \o (IF Above(q.b) /\ Above(q.d) /\ Above(q.c) THEN <<q.c, q.b, q.d>> ELSE <<>>)
            \o QuadTriangles(k + 1)

NoneAtMinimum == \A v \in Vertices : Height(v) # buffer.minZ

\* C22 as stated: for an accepted grid with no vertex exactly at the
\* minimum, the index buffer is, quad by quad in row-major order, triangle
\* (b,a,d) when b, d and a are above the minimum, then (c,b,d) when b, d and
\* c are above it, and the counting pass allocated as many indices as the
\* emission pass wrote.
C22_IndexBuffer ==
    (Decoded /\ mesh # NoMesh /\ NoneAtMinimum) =>
        /\ mesh.indices = QuadTriangles(0)
        /\ mesh.allocated = mesh.written

C28_IndicesInRange ==
    (Decoded /\ mesh # NoMesh) =>
        /\ mesh.uint32 <=> buffer.width * buffer.height > 65535
        /\ \A i \in DOMAIN mesh.indices :
              /\ mesh.indices[i] >= 0
              /\ mesh.indices[i] < buffer.width * buffer.height
              /\ ~mesh.uint32 => mesh.indices[i] <= 65535

----------------------------------------------------------------------------
(* Claims about the shared origin, checked under SpecOrigin *)

\* C1: the stored origin is the value the argument of the first setOrigin
\* call had at the moment of that call, and it stays that value whatever the
\* callers do afterwards with the vector they passed or with the vector
\* getOrigin returned.
C1_FirstWriterWins == origin = firstArg

\* processRing set the origin from its first point, then subtracted the
\* origin from that same vector and went on to a second point
C1_Witness ==
    /\ origin # NoOrigin
    /\ last.op = "processRing"
    /\ last.before = NoOrigin
    /\ Len(last.ring) = 2
    /\ last.vs[1] = Zero

\* C2: a normalizeCoordinate call made while no origin is set makes
\* (x, z + 0.1, -y) the origin and returns the zero vector exactly when
\* |x| > 1 and |y| > 1; otherwise (|x| = 1 or |y| = 1 included) the origin
\* stays unset.
C2_FirstRealCoordinate ==
    (last.op = "normalizeCoordinate" /\ last.before = NoOrigin) =>
        IF (last.p.x > 1000 \/ last.p.x < -1000) /\ (last.p.y > 1000 \/ last.p.y < -1000)
        THEN origin = Vec(last.p.x, last.p.z + 100, -last.p.y) /\ last.pos = Zero
        ELSE origin = NoOrigin

C2_Witness ==
    /\ last.op = "normalizeCoordinate"
    /\ last.before = NoOrigin
    /\ origin # NoOrigin
    /\ last.pos = Zero
    /\ writes = 1

\* C3: with an origin set, normalizeCoordinate(x, y, z) returns
\* (x, z + 0.1, -y) - origin, a repeated input gets the result it got before,
\* and the origin is left as it was.
C3_RelativeToOrigin ==
    /\ (last.op = "normalizeCoordinate" /\ last.before # NoOrigin) =>
          /\ last.pos = VSub(Vec(last.p.x, last.p.z + 100, -last.p.y), last.before)
          /\ origin = last.before
          /\ memo[last.p] # NoResult
          /\ last.pos = memo[last.p].pos
    /\ \A p \in DomainPoints :
          memo[p] # NoResult =>
              memo[p].pos = VSub(Vec(p.x, p.z + 100, -p.y), origin)

\* the same input normalized a second time against a set origin
C3_Witness ==
    /\ last.op = "normalizeCoordinate"
    /\ last.before # NoOrigin
    /\ memo[last.p] # NoResult
    /\ memo[last.p].again
    /\ last.pos # Zero

\* C4 as stated: no component other than normalizeCoordinate writes the
\* origin, and the origin is written once.
C4_OnlyNormalizerWrites ==
    /\ writer \in {"none", "normalizeCoordinate"}
    /\ writes <= 1

\* C4 amended: the origin is written at most once, by whichever of
\* normalizeCoordinate, loadInternal and processRing first meets its
\* condition with no origin set; no later call of any component changes it.
C4_WrittenOnceByFirstCaller ==
    /\ writes <= 1
    /\ (writes = 1) <=> (origin # NoOrigin)
    /\ (writer = "none") <=> (origin = NoOrigin)
    /\ writer \in {"none", "normalizeCoordinate", "loadInternal", "processRing"}
    /\ (last.op # "none" /\ last.before # NoOrigin) => origin = last.before

\* the model loader wrote the origin and a later ring import left it alone
C4_Witness ==
    /\ writer = "loadInternal"
    /\ last.op = "processRing"
    /\ Len(last.ring) > 0
    /\ last.before # NoOrigin

\* the heuristic centre of a loaded model, and its squared length in whole
\* units against the squared threshold of 1000
Centre(hint, bbox) == IF hint # NoHint THEN Vec(hint.x, hint.z, -hint.y) ELSE bbox
Beyond(c) ==
    (c.x \div 1000) * (c.x \div 1000) + (c.y \div 1000) * (c.y \div 1000)
        + (c.z \div 1000) * (c.z \div 1000) > 1000 * 1000

\* C24: a model that finishes loading with no origin set and a heuristic
\* centre (the hint remapped as (x, z, -y), else the bounding-box centre)
\* longer than 1000 makes that centre the origin; with an origin set, or a
\* centre of length at most 1000, the origin is left as it was.
C24_ModelSeedsOrigin ==
    last.op = "loadInternal" =>
        IF last.before = NoOrigin /\ Beyond(Centre(last.hint, last.bbox))
        THEN origin = Centre(last.hint, last.bbox)
        ELSE origin = last.before

\* a model whose hint (0, 0, 2000) outweighs its far bounding box set the
\* origin to (0, 2000, 0)
C24_Witness ==
    /\ last.op = "loadInternal"
    /\ last.before = NoOrigin
    /\ last.hint = Vec(0, 0, 2000000)
    /\ last.bbox = Vec(5000000, 5000000, 0)
    /\ origin = Vec(0, 2000000, 0)
    /\ last.pos = Zero

\* C30 as stated: the coordinates shown for the render point
\* normalizeCoordinate(x, y, z) are E = x, N = y and H = z, with or without
\* an origin.
C30_DisplayInvertsNormalize ==
    last.op = "mousemove" =>
        last.shown = [E |-> last.p.x, N |-> last.p.y, H |-> last.p.z]

\* C27 as stated: whichever loader wrote the origin, both of its horizontal
\* components (x, and z, the negated north) exceed 1 in magnitude.
C27_OriginNeverSentinel ==
    origin # NoOrigin =>
        /\ origin.x > 1000 \/ origin.x < -1000
        /\ origin.z > 1000 \/ origin.z < -1000

----------------------------------------------------------------------------
(* Claims about GLTFLoader.load, checked under SpecLoader *)

\* C11: whatever number of load calls are made for a url, its fetch is
\* started at most once; while calls are suspended on the url exactly one
\* fetch is pending, and every call that returned got a clone of the one
\* model the cached promise resolved with.
C11_OneFetchPerUrl ==
    \A u \in Urls :
        /\ cache[u].fetches <= 1
        /\ (\E i \in DOMAIN calls : calls[i].url = u) =>
              cache[u].st = "pending" /\ cache[u].fetches = 1
        /\ \A k \in DOMAIN instances :
              instances[k].url = u =>
                  cache[u].fetches = 1 /\ instances[k].src = canon[u]

\* three calls for one url are suspended on its single pending fetch
C11_Witness ==
    \E u \in Urls :
        /\ cache[u].st = "pending"
        /\ cache[u].fetches = 1
        /\ Len(calls) = 3
        /\ \A i \in DOMAIN calls : calls[i].url = u

\* the transform a returned model must have: each argument given, and the
\* resolved model's value for each argument left out
Expected(t, r) ==
    Transform(IF t.position # NoArg THEN t.position ELSE r.position,
              IF t.scale # NoArg THEN t.scale ELSE r.scale,
              IF t.rotation # NoArg THEN t.rotation ELSE r.rotation)

\* C12: the cached model keeps the transform loadInternal resolved with,
\* every returned model is an object of its own, different from the cached
\* one, and its transform is given by the arguments of its own call alone.
C12_TransformOnCloneOnly ==
    /\ \A u \in Urls :
          canon[u] # 0 => TransformOf(objects[canon[u]]) = resolved[u]
    /\ \A k \in DOMAIN instances :
          instances[k].obj # 0 =>
              /\ instances[k].obj # canon[instances[k].url]
              /\ TransformOf(objects[instances[k].obj])
                     = Expected(instances[k].args, resolved[instances[k].url])
    /\ \A j, k \in DOMAIN instances :
          (j # k /\ instances[j].obj # 0) => instances[j].obj # instances[k].obj

\* two calls for one url with different positions were suspended on the same
\* fetch and both returned
C12_Witness ==
    \E j, k \in DOMAIN instances :
        /\ j < k
        /\ instances[j].url = instances[k].url
        /\ instances[j].obj # 0
        /\ instances[k].obj # 0
        /\ instances[j].args.position # NoArg
        /\ instances[k].args.position # NoArg
        /\ instances[j].args.position # instances[k].args.position
        /\ cache[instances[j].url].fetches = 1
        /\ cache[instances[j].url].pos # Zero

\* C29: once the fetch of a url has failed, the url's cache entry stays the
\* rejected promise for the rest of the loader's life: no fetch is started
\* for it again (loadInternal has run once), no call waits on it, and every
\* load of that url, made before or after the failure, rejected.
C29_FailureCached ==
    /\ [](\A u \in Urls :
            cache[u].st = "rejected" =>
                /\ cache[u].fetches = 1
                /\ canon[u] = 0
                /\ \A i \in DOMAIN calls : calls[i].url # u
                /\ \A k \in DOMAIN instances :
                      instances[k].url = u => instances[k].obj = 0)
    /\ [][\A u \in Urls : cache[u].st = "rejected" => cache'[u] = cache[u]]_vars

\* a load of a url rejected, then a load of the other url returned, then
\* another load of the first url rejected: that one was called after the
\* failure (the calls suspended at the failure are rejected together), and
\* still one fetch was made
C29_Witness ==
    /\ Len(instances) = 3
    /\ instances[1].url = instances[3].url
    /\ instances[2].url # instances[1].url
    /\ instances[1].obj = 0
    /\ instances[3].obj = 0
    /\ cache[instances[1].url].st = "rejected"
    /\ cache[instances[1].url].fetches = 1

\* C13 as stated: the wireframe flag a returned model shows is the value
\* last chosen for that model, whatever was chosen for the other models, and
\* the cached model never shows wireframe.
C13_NoCrossContamination ==
    /\ \A k \in DOMAIN instances :
          instances[k].obj # 0 =>
              materials[objects[instances[k].obj].mat].wireframe = instances[k].wire
    /\ \A u \in Urls :
          canon[u] # 0 => materials[objects[canon[u]].mat].wireframe = FALSE

----------------------------------------------------------------------------
(* Claims about a parse run, checked under Spec *)

\* C5 as stated: all entities placed in the scene by one run had the same
\* origin subtracted (none was positioned against the unset origin while
\* another was positioned against a set one).
C5_OneFrame == Cardinality(frames) <= 1

\* the layer stage run with the fetches settling in payload order
RECURSIVE InOrderLayers(_, _, _)
InOrderLayers(h, recs, poss) ==
    IF recs = <<>> THEN [origin |-> OriginOf(h), poss |-> poss]
    ELSE LET f == xvbFetched(h, Head(recs))
         IN InOrderLayers(f.h, Tail(recs), Append(poss, f.pos))

\* C6 as stated: once every terrain fetch of a run has settled, the origin
\* and the position of every terrain mesh are what they are when the fetches
\* settle in payload order, whatever order they settled in.
C6_Reproducible ==
    (pc = "layers" /\ \A i \in DOMAIN layers : layers[i].st # "fetching") =>
        LET xs == {i \in DOMAIN layers : layers[i].rec.kind = "xvb"}
            r == InOrderLayers(Heap(origin0, origin0),
                               [i \in DOMAIN layers |->
                                   IF i \in xs THEN layers[i].rec
                                   ELSE [kind |-> "xvb", fetch |-> "invalid", c |-> Zero]],
                               <<>>)
        IN /\ origin = r.origin
           /\ \A i \in xs : layers[i].pos = r.poss[i]

\* C7: with a callback, every layer and asset task calls updateProgress at
\* most once, completedTasks counts exactly those calls and never exceeds
\* the number of tasks, and when parse resolves every task has reported.
C7_EachTaskReportsOnce ==
    hasProgress =>
        /\ \A i \in DOMAIN layers : layers[i].rep <= 1
        /\ \A j \in DOMAIN assets : assets[j].rep <= 1
        /\ completed <= Total
        /\ completed = Reps(layers) + Reps(assets)
        /\ pc = "resolved" =>
             /\ Len(assets) = assetCount
             /\ \A i \in DOMAIN layers : layers[i].rep = 1
             /\ \A j \in DOMAIN assets : assets[j].rep = 1
             /\ completed = Total

\* a resolved run of two layers and two assets in which a layer and an asset
\* produced nothing and an asset was placed
C7_Witness ==
    /\ pc = "resolved"
    /\ hasProgress
    /\ Len(layers) = 2
    /\ Len(assets) = 2
    /\ completed = 4
    /\ \E i \in DOMAIN layers : layers[i].out = "none"
    /\ \E i \in DOMAIN layers : layers[i].out = "mesh"
    /\ \E j \in DOMAIN assets : assets[j].rec.kind \in {"invisible", "nourl"}
    /\ \E j \in DOMAIN assets : assets[j].out = "model"

PctLE(a, b) == a.n * b.d <= b.n * a.d

\* C8 as stated: the reported percents never decrease, and when parse
\* resolves the last one reported is 100.
C8_MonotoneTo100 ==
    hasProgress =>
        /\ \A i, j \in DOMAIN reports : i < j => PctLE(reports[i], reports[j])
        /\ pc = "resolved" =>
             /\ reports # <<>>
             /\ reports[Len(reports)].n = 100 * reports[Len(reports)].d

LayerFailed(i) == layers[i].rec.kind = "settled" /\ layers[i].rec.failed
AssetFailed(j) ==
    /\ assets[j].rec.kind = "asset"
    /\ assets[j].st = "done"
    /\ assets[j].pos # NoResult
    /\ cache[assets[j].rec.url].st = "rejected"
AssetLoaded(j) ==
    /\ assets[j].rec.kind = "asset"
    /\ assets[j].st = "done"
    /\ assets[j].pos # NoResult
    /\ cache[assets[j].rec.url].st = "resolved"

\* C9: parse never rejects because a terrain or model fetch or decode
\* failed; in a resolved run with such a failure the last percent reported
\* is 100, every terrain mesh built and every asset whose model loaded is in
\* a group of the returned scene.
C9_FailureIsolated ==
    /\ cause # "fetch"
    /\ ( /\ pc = "resolved"
         /\ \/ \E i \in DOMAIN layers : LayerFailed(i)
            \/ \E j \in DOMAIN assets : AssetFailed(j) ) =>
          /\ hasProgress => /\ reports # <<>>
                            /\ reports[Len(reports)].n = 100 * reports[Len(reports)].d
          /\ \A i \in DOMAIN layers :
                 layers[i].out \in {"mesh", "placeholder"} => "Terrain Layers" \in scene
          /\ \A j \in DOMAIN assets :
                 AssetLoaded(j) => assets[j].out = "model" /\ "Staged Assets" \in scene

\* a resolved run: one terrain fetch failed and the other layer's mesh is in
\* the scene, one model fetch failed and the other asset is in the scene
C9_Witness ==
    /\ pc = "resolved"
    /\ hasProgress
    /\ \E i \in DOMAIN layers : LayerFailed(i)
    /\ \E i \in DOMAIN layers : layers[i].out = "mesh"
    /\ \E j \in DOMAIN assets : AssetFailed(j)
    /\ \E j \in DOMAIN assets : AssetLoaded(j)
    /\ scene = {"Terrain Layers", "Staged Assets"}

\* C10 as stated: parse rejects only when the payload itself cannot be read.
C10_OnlyPayloadRejects == pc = "rejected" => ~payloadOK

Artifact(p) == p.x > -10 /\ p.x < 10 /\ p.y > -10 /\ p.y < 10

\* C18: a shape or staged asset whose |x| and |y| are both below 0.01 gives
\* no entity and is never passed to normalizeCoordinate, whatever its z; any
\* other shape gives an entity, and any other staged asset is normalized and
\* placed when its model loads.
C18_ArtifactRule ==
    /\ (last.op = "shapes" /\ last.rec.kind = "shape") =>
          IF Artifact(last.rec.p)
          THEN ~last.made /\ last.pts = <<>> /\ origin = last.before
          ELSE last.made /\ Len(last.pts) = 1
    /\ \A j \in DOMAIN assets :
          assets[j].rec.kind = "asset" =>
              IF Artifact(assets[j].rec.p)
              THEN /\ assets[j].st = "done"
                   /\ assets[j].out = "none"
                   /\ assets[j].pos = NoResult
              ELSE /\ assets[j].pos # NoResult
                   /\ (assets[j].st = "done" /\ cache[assets[j].rec.url].st = "resolved")
                          => assets[j].out = "model"

\* the shape at (0.005, 0.005, 10) was dropped after another shape had been
\* placed and had set the origin
C18_Witness ==
    /\ last.op = "shapes"
    /\ last.rec.kind = "shape"
    /\ last.rec.p = Vec(5, 5, 10000)
    /\ ~last.made
    /\ frames # {}
    /\ origin = Vec(5000000, 10100, -5000000)

FewPoints(rec) ==
    \/ rec.kind = "well" /\ Len(rec.path) < 2
    \/ rec.kind = "connection" /\ Len(rec.sampled) < 2
ZeroDimension(rec) ==
    \/ /\ rec.shapeType = "Cube"
       /\ 0 \in {rec.dims.boxWidth, rec.dims.boxHeight, rec.dims.boxDepth}
    \/ /\ rec.shapeType = "Cylinder"
       /\ 0 \in {rec.dims.cylinderRadiusTop, rec.dims.cylinderRadiusBottom,
                 rec.dims.cylinderHeight}
IsPath(rec) == rec.kind \in {"well", "connection"}

\* C19 as stated: a well or connection with fewer than two points gives no
\* entity, and a shape with a zero dimension gives no entity.
C19_DegenerateOmitted ==
    /\ (last.op \in {"wells", "connections"} /\ IsPath(last.rec) /\ FewPoints(last.rec))
          => ~last.made
    /\ (last.op = "shapes" /\ last.rec.kind = "shape" /\ ZeroDimension(last.rec))
          => ~last.made

OrDefault(v, dflt) == IF v = 0 THEN dflt ELSE v

\* C19 amended: a well or connection with fewer than two points gives no
\* entity; a shape is not omitted for a zero dimension: it gives an entity
\* in which a zero box side is 10, a zero cylinder radius is 5 and a zero
\* cylinder height is the box height (10 when that is zero too).
C19_DegenerateHandled ==
    /\ (last.op \in {"wells", "connections"} /\ IsPath(last.rec) /\ FewPoints(last.rec))
          => ~last.made
    /\ ( /\ last.op = "shapes"
         /\ last.rec.kind = "shape"
         /\ ZeroDimension(last.rec)
         /\ ~Artifact(last.rec.p) ) =>
          /\ last.made
          /\ \A i \in 1..3 : last.geo.size[i] > 0
          /\ last.rec.shapeType = "Cube" =>
                last.geo.size = << OrDefault(last.rec.dims.boxWidth, 10000),
                                   OrDefault(last.rec.dims.boxHeight, 10000),
                                   OrDefault(last.rec.dims.boxDepth, 10000) >>
          /\ last.rec.shapeType = "Cylinder" =>
                last.geo.size = << OrDefault(last.rec.dims.cylinderRadiusTop, 5000),
                                   OrDefault(last.rec.dims.cylinderRadiusBottom, 5000),
                                   OrDefault(last.rec.dims.cylinderHeight,
                                             OrDefault(last.rec.dims.boxHeight, 10000)) >>

\* a cube whose three sides are zero was built as a 10 by 10 by 10 box
C19_Witness ==
    /\ last.op = "shapes"
    /\ last.rec.kind = "shape"
    /\ last.rec.shapeType = "Cube"
    /\ last.rec.dims.boxWidth = 0
    /\ last.rec.dims.boxHeight = 0
    /\ last.rec.dims.boxDepth = 0
    /\ last.made
    /\ last.geo = [type |-> "Box", size |-> <<10000, 10000, 10000>>]

Dispatched ==
    \/ layers # <<>>
    \/ assets # <<>>
    \/ \E u \in Urls : cache[u].st # "none"

\* C20: once a layer or asset task has been dispatched no shape, well or
\* connection is constructed any more, and with a callback the reports are
\* 5, then 10, both made before the dispatch, then one report per completed
\* task, each greater than 10.
C20_SyncBeforeAsync ==
    /\ Dispatched =>
          /\ pc \in {"layers", "assets", "resolved", "rejected"}
          /\ last = NoCall
          /\ nSync = 0
    /\ (hasProgress /\ Dispatched) =>
          /\ Len(reports) = 2 + completed
          /\ reports[1] = Pct(5, 1)
          /\ reports[2] = Pct(10, 1)
    /\ hasProgress =>
          \A i \in DOMAIN reports : i > 2 => reports[i].n > 10 * reports[i].d

\* two layers were dispatched after two entities had been placed; the first
\* task report, 55%, has been made while a terrain fetch is still pending
C20_Witness ==
    /\ hasProgress
    /\ pc = "layers"
    /\ frames # {}
    /\ Len(layers) = 2
    /\ \E i \in DOMAIN layers : layers[i].st = "fetching"
    /\ reports = <<Pct(5, 1), Pct(10, 1), Pct(110, 2)>>

\* C21 as stated, in the form a finite run refutes: the staged assets of a
\* run do not wait for its terrain layers, so while a terrain fetch is still
\* pending the staged-asset tasks of the run have been dispatched.
C21_AssetsAlongsideLayers ==
    ( /\ pc = "layers"
      /\ assetCount > 0
      /\ \E i \in DOMAIN layers : layers[i].st = "fetching" ) =>
        Len(assets) = assetCount

\* C21 amended: the terrain-layer tasks of a run are dispatched together and
\* so are its staged-asset tasks, but no staged-asset task is dispatched, and
\* no model fetch started, before every terrain-layer task has finished.
C21_AssetsAfterLayers ==
    /\ (assets # <<>> \/ \E u \in Urls : cache[u].st # "none") =>
          \A i \in DOMAIN layers : layers[i].st = "done"
    /\ pc = "layers" => assets = <<>>
    /\ pc = "assets" => Len(assets) = assetCount

\* two terrain layers have finished, one with a mesh, and only then two
\* staged assets wait together on the fetches of two models
C21_Witness ==
    /\ pc = "assets"
    /\ Len(layers) = 2
    /\ \E i \in DOMAIN layers : layers[i].out = "mesh"
    /\ Len(assets) = 2
    /\ assets[1].st = "loading"
    /\ assets[2].st = "loading"
    /\ assets[1].rec.url # assets[2].rec.url

\* C26 as stated: a well or connection that gives no entity because it has
\* fewer than two points leaves the origin as it was.
C26_OmittedLeavesOrigin ==
    ( /\ last.op \in {"wells", "connections"}
      /\ IsPath(last.rec)
      /\ FewPoints(last.rec)
      /\ ~last.made ) =>
        origin = last.before

\* C25 as stated: when every fetch that is dispatched settles, the parse of
\* a readable payload eventually resolves with the scene group.
C25_AlwaysResolves == payloadOK => <>(pc = "resolved")

----------------------------------------------------------------------------
Next ==
    \/ ParseStart /\ UNCHANGED <<lvars, xvars>>
    \/ ParseShape /\ UNCHANGED <<lvars, xvars>>
    \/ ParseWell /\ UNCHANGED <<lvars, xvars>>
    \/ ParseConnection /\ UNCHANGED <<lvars, xvars>>
    \/ NextGroup /\ UNCHANGED <<lvars, xvars>>
    \/ StartDownloads /\ UNCHANGED <<lvars, xvars>>
    \/ \E i \in DOMAIN layers : LayerFetched(i) /\ UNCHANGED <<lvars, xvars>>
    \/ \E i \in DOMAIN layers : TextureSettled(i) /\ UNCHANGED <<lvars, xvars>>
    \/ LayersSettled /\ UNCHANGED <<lvars, xvars>>
    \/ \E u \in Urls : ModelFetched(u) /\ UNCHANGED <<lvars, xvars>>
    \/ AssetsSettled /\ UNCHANGED <<lvars, xvars>>

Spec == InitParse /\ [][Next]_vars

\* the same run under the scheduling of the event loop: synchronous code and
\* the continuations of settled promises run, and every fetch that was
\* dispatched settles
Fairness ==
    /\ WF_vars(Next)
    /\ \A i \in 1..MaxLayers :
          /\ WF_vars(i \in DOMAIN layers /\ LayerFetched(i) /\ UNCHANGED <<lvars, xvars>>)
          /\ WF_vars(i \in DOMAIN layers /\ TextureSettled(i) /\ UNCHANGED <<lvars, xvars>>)
    /\ \A u \in Urls : WF_vars(ModelFetched(u) /\ UNCHANGED <<lvars, xvars>>)

SpecLive == InitParse /\ [][Next]_vars /\ Fairness

====
